---------------------------- MODULE Spec2Model ----------------------------
(***************************************************************************)
(* A model of AbortablePromise (src/src/promises/AbortablePromise.ts).     *)
(*                                                                         *)
(* Task 0 is the promise built by `new AbortablePromise(executor, options)`*)
(* and tasks 1..MaxDerived are the promises derived from it with then /    *)
(* catch / finally.  Every task is an AbortablePromise instance: a derived *)
(* one is built by the native then() through the same constructor, with no *)
(* options and with the native capability executor as its executor.        *)
(*                                                                         *)
(* Each task is a record holding what the constructor's closure holds:     *)
(* the settlement of the underlying Promise (state, value), the            *)
(* AbortController's signal (aborted, reason, its listener list), the      *)
(* cleanupFns array, the timer and the bridge listener on the external     *)
(* signal.  The closures of the constructor are operators from a task      *)
(* record to a task record; an action applies them to the task they        *)
(* belong to.  JavaScript is single-threaded, so a call and everything it  *)
(* calls synchronously is one action.                                      *)
(*                                                                         *)
(* Values passed to the settle callback are plain (non-thenable) values,   *)
(* as the wrapper's own signature `(result: Result)` has them.             *)
(***************************************************************************)
EXTENDS Integers, Sequences, FiniteSets, TLC

\* ------------------------------------------------------------------ bounds
MaxDerived == 2    \* derived (chained) tasks
MaxListeners == 2  \* onAborted registrations of the work function (SpecListeners)
MaxSourceListeners == 1  \* the same, where every abort source is present (Spec)
MaxOps == 2        \* calls of the settle / reject callbacks and of reject()
MaxTimeout == 2    \* the timeouts tried are 0 (falsy: no timer) .. MaxTimeout

Tasks == 0..MaxDerived
Root == 0

\* ------------------------------------------------------------------ values
\* Every JavaScript value of the model is a pair <<kind, payload>>.
Undefined == <<"undefined", 0>>
Values == {<<"val", 1>>, <<"val", 2>>}
Errors == {<<"err", 1>>}
Reasons == Errors \cup {Undefined}
SignalReason == <<"err", 2>>   \* what the external signal is aborted with
HandlerValue == <<"val", 3>>   \* what a continuation handler returns
HandlerError == <<"err", 3>>   \* what a continuation handler throws
ListenerValue == <<"val", 4>>  \* what a settling abort listener settles with
ListenerError == <<"err", 4>>  \* what a rejecting abort listener rejects with

\* new TimeoutError(timeout): carries the configured duration.
TimeoutError(timeout) == <<"TimeoutError", timeout>>
\* new CancelledError(): no payload.
CancelledError == <<"CancelledError", 0>>
\* The DOMException an AbortController makes up when abort() gets no reason.
AbortError == <<"AbortError", 0>>

\* resolve.js: withResolved(result) tags a value as "resolved"; the tag is a
\* tuple whose element [1] is the value.
withResolved(result) == <<"resolved", result>>
isPromiseResolveResult(reason) == reason[1] = "resolved"

\* -------------------------------------------------------------- the record
\* The internal reject-on-abort listener and the listeners of the work function.
\* A listener is <<id, act>>: what the listener does when it is invoked.
RejListener == <<0, "rej">>
ListenerActs == {"obs", "settle", "reject", "onResolved"}

\* The closure state right after `const controller = new AbortController()`:
\* a pending Promise, an unaborted signal with no listener, no cleanup function.
\* ran and fired are logs: the cleanup functions withCleanup has executed and
\* the listener invocations <<id, act, reason passed, settlement state found,
\* number of cleanups found executed>>, each in order. awaited is the value the
\* executor built by the static fn is suspended on.
NewTask(self, options) ==
    [state |-> "pending", value |-> Undefined,
     aborted |-> FALSE, reason |-> Undefined,
     listeners |-> <<>>, cleanupFns |-> <<>>,
     ran |-> <<>>, fired |-> <<>>,
     timer |-> "none", bridge |-> FALSE,
     rejectOnAbort |-> options.rejectOnAbort, timeout |-> options.timeout,
     executor |-> "absent", awaited |-> Undefined,
     parent |-> self, kind |-> "root", handler |-> "none",
     abort |-> self, reject |-> self, reacted |-> FALSE]

\* A task that has not been created yet.
NoTask == [NewTask(0, [rejectOnAbort |-> TRUE, timeout |-> 0]) EXCEPT !.state = "none"]

\* ------------------------------------------------------------ the closures
RECURSIVE forEachCleanup(_, _, _)
RECURSIVE dispatchEvent(_, _, _)
RECURSIVE controllerAbort(_, _)
RECURSIVE abort(_, _)
RECURSIVE withCleanup(_)
RECURSIVE resolve(_, _)
RECURSIVE reject(_, _)
RECURSIVE invoke(_, _)

\* The native resolving functions of the underlying Promise: the first call
\* settles it, every later call does nothing.
res(s, result) ==
    IF s.state = "pending"
    THEN [s EXCEPT !.state = "fulfilled", !.value = result]
    ELSE s

\* Faulty variant: a reject function that settles a settled promise again.
rej_Overwrite(s, reason) == [s EXCEPT !.state = "rejected", !.value = reason]

rej(s, reason) ==
    IF s.state = "pending"
    THEN [s EXCEPT !.state = "rejected", !.value = reason]
    ELSE s

\* One cleanup function: the listener's removeEventListener, the bridge's
\* removeEventListener on the external signal, or clearTimeout.
cleanupEffect(s, c) ==
    CASE c[1] = "listener" ->
           [s EXCEPT !.listeners = SelectSeq(@, LAMBDA l : l[1] # c[2])]
      [] c[1] = "bridge" -> [s EXCEPT !.bridge = FALSE]
      [] c[1] = "timer" ->
           [s EXCEPT !.timer = IF @ = "armed" THEN "cleared" ELSE @]

\* cleanupFns.forEach(fn => fn()), from index i on.
forEachCleanup(s, fns, i) ==
    IF i > Len(fns)
    THEN s
    ELSE forEachCleanup(
             [cleanupEffect(s, fns[i]) EXCEPT !.ran = Append(@, fns[i])],
             fns, i + 1)

\* withCleanup(fn): after fn has run, every function of cleanupFns is called.
\* The array is never emptied.
withCleanup(s) == forEachCleanup(s, s.cleanupFns, 1)

\* One listener being invoked with abortReason(). The log entry keeps what the
\* listener finds: whether the task is settled, how many cleanups have run.
invoke(s, l) ==
    LET called == [s EXCEPT !.fired =
                       Append(@, <<l[1], l[2], s.reason, s.state, Len(s.ran)>>)]
    IN  CASE l[2] = "rej" -> rej(called, s.reason)
          [] l[2] = "obs" -> called
          [] l[2] = "settle" -> resolve(called, ListenerValue)
          [] l[2] = "reject" -> reject(called, ListenerError)
          [] l[2] = "onResolved" ->
               IF isPromiseResolveResult(s.reason) THEN called ELSE s

\* The signal dispatching its abort event: the listeners registered when the
\* dispatch started, in registration order, skipping one that has been removed
\* in the meantime.
dispatchEvent(s, snapshot, i) ==
    IF i > Len(snapshot)
    THEN s
    ELSE IF \E k \in 1..Len(s.listeners) : s.listeners[k] = snapshot[i]
         THEN dispatchEvent(invoke(s, snapshot[i]), snapshot, i + 1)
         ELSE dispatchEvent(s, snapshot, i + 1)

\* controller.abort(reason): does nothing on an aborted signal; otherwise sets
\* the flag and the reason (an AbortError when no reason is given) and
\* dispatches the event.
controllerAbort(s, reason) ==
    IF s.aborted
    THEN s
    ELSE dispatchEvent(
             [s EXCEPT !.aborted = TRUE,
                       !.reason = IF reason = Undefined THEN AbortError ELSE reason],
             s.listeners, 1)

\* Faulty variant: abort writing the reason of an aborted signal again.
abort_Overwrite(s, reason) ==
    IF s.aborted
    THEN [s EXCEPT !.reason = IF reason = Undefined THEN AbortError ELSE reason]
    ELSE controllerAbort(s, reason)

\* abort = reason => { !signal.aborted && controller.abort(reason) }
abort(s, reason) == IF ~s.aborted THEN controllerAbort(s, reason) ELSE s

abortReason(s) == s.reason
isAborted(s) == s.aborted
isResolved(s) == isPromiseResolveResult(abortReason(s))
resolved(s) == IF isPromiseResolveResult(abortReason(s)) THEN abortReason(s)[2] ELSE Undefined

\* onAborted(listener): addEventListener on the signal (which never calls a
\* listener added after the event), and its removal pushed on cleanupFns.
onAborted(s, l) ==
    [s EXCEPT !.listeners = Append(@, l),
              !.cleanupFns = Append(@, <<"listener", l[1]>>)]

\* Faulty variant: resolve running the cleanup before it aborts.
resolve_CleanupFirst(s, result) == abort(withCleanup(res(s, result)), withResolved(result))

\* Faulty variant: resolve aborting with the bare value instead of the resolved tag.
resolve_Untagged(s, result) == withCleanup(abort(res(s, result), result))

\* resolve = withCleanup(result => { res(result); abort(withResolved(result)) })
resolve(s, result) == withCleanup(abort(res(s, result), withResolved(result)))

\* Faulty variant: reject that does not abort the controller.
reject_NoAbort(s, reason) == withCleanup(rej(s, reason))

\* reject = withCleanup(reason => { rej(reason); abort(reason) })
reject(s, reason) == withCleanup(abort(rej(s, reason), reason))


\* ---------------------------------------------------------- the constructor
\* The options of a task and the external signal it may be given.
Timeouts == {0, MaxTimeout}
Options == [rejectOnAbort : BOOLEAN, timeout : Timeouts]
DefaultOptions == [rejectOnAbort |-> TRUE, timeout |-> 0]
NoSignal == [present |-> FALSE, aborted |-> FALSE, reason |-> Undefined]

\* What the work function does synchronously when the constructor calls it.
\* The executor field of a task is "async" while a promise the work function
\* returned may still reject, and "sync" when there is none (any more); it is
\* "await" while the executor built by the static fn is suspended and "done"
\* once that executor has finished.
Executors ==
    {<<"absent", Undefined>>, <<"idle", Undefined>>, <<"async", Undefined>>}
    \cup {<<"settle", v>> : v \in Values}
    \cup {<<"reject", r>> : r \in Reasons}
    \cup {<<"throw", r>> : r \in Reasons}
NativeExecutor == <<"native", Undefined>>

\* Faulty variant: the bridge listener aborting without the signal's reason.
bridgeListener_NoReason(s, abortSignal) == abort(s, Undefined)

\* The bridge listener: const listener = () => { abort(abortSignal.reason) },
\* called by the external signal when it aborts.
bridgeListener(s, abortSignal) == abort(s, abortSignal.reason)

\* Faulty variant: an already aborted signal rejecting whatever rejectOnAbort says.
abortSignalRegion_AlwaysReject(s, abortSignal) ==
    IF abortSignal.present
    THEN IF abortSignal.aborted
         THEN reject(s, abortSignal.reason)
         ELSE [s EXCEPT !.bridge = TRUE,
                        !.cleanupFns = Append(@, <<"bridge", 0>>)]
    ELSE s

\* Region "Process abortSignal option", without its early return.
abortSignalRegion(s, abortSignal) ==
    IF abortSignal.present
    THEN IF abortSignal.aborted
         THEN IF s.rejectOnAbort
              THEN reject(s, abortSignal.reason)
              ELSE abort(s, abortSignal.reason)
         ELSE [s EXCEPT !.bridge = TRUE,
                        !.cleanupFns = Append(@, <<"bridge", 0>>)]
    ELSE s

\* Faulty variant: the listener is never registered.
rejectOnAbortRegion_Never(s) == s

\* Faulty variant: the listener is registered whatever the option says.
rejectOnAbortRegion_Always(s) == onAborted(s, RejListener)

\* Region "Process rejectOnAbort option": rejectOnAbort && onAborted(rej).
rejectOnAbortRegion(s) ==
    IF s.rejectOnAbort THEN onAborted(s, RejListener) ELSE s

\* Region "Process timeout option".
timeoutRegion(s) ==
    IF s.timeout # 0
    THEN [s EXCEPT !.timer = "armed", !.cleanupFns = Append(@, <<"timer", 0>>)]
    ELSE s

\* Faulty variant: the timer aborts with an error that has lost the duration.
timeoutCallback_NoDuration(s) == abort([s EXCEPT !.timer = "fired"], TimeoutError(0))

\* The setTimeout callback: abort(new TimeoutError(timeout)).
timeoutCallback(s) == abort([s EXCEPT !.timer = "fired"], TimeoutError(s.timeout))

\* Faulty variant: the executor of fn settling without waiting.
fnExecutor_NoAwait(s, value) ==
    resolve([s EXCEPT !.executor = "done", !.awaited = value], value)

\* The executor static fn builds, up to its await: fn(context) has returned
\* value and the async function is suspended on it.
fnExecutor(s, value) == [s EXCEPT !.executor = "await", !.awaited = value]

\* ... and resumed: res(await fn(context)), res being the wrapped resolve.
fnResumed(s) == resolve([s EXCEPT !.executor = "done"], s.awaited)

\* Faulty variant: a throw of the work function is not caught.
callExecutor_NoCatch(s, executor) ==
    CASE executor[1] = "absent" -> s
      [] executor[1] = "idle" -> [s EXCEPT !.executor = "sync"]
      [] executor[1] = "async" -> [s EXCEPT !.executor = "async"]
      [] executor[1] = "native" -> [s EXCEPT !.executor = "native"]
      [] executor[1] = "fn" -> fnExecutor(s, executor[2])
      [] executor[1] = "settle" ->
           resolve([s EXCEPT !.executor = "sync"], executor[2])
      [] executor[1] = "reject" ->
           reject([s EXCEPT !.executor = "sync"], executor[2])
      [] executor[1] = "throw" -> [s EXCEPT !.executor = "threw"]

\* try { result = executor && executor(resolve, reject, context) ... }
\* catch (e) { reject(e) }
callExecutor(s, executor) ==
    CASE executor[1] = "absent" -> s
      [] executor[1] = "idle" -> [s EXCEPT !.executor = "sync"]
      [] executor[1] = "async" -> [s EXCEPT !.executor = "async"]
      [] executor[1] = "native" -> [s EXCEPT !.executor = "native"]
      [] executor[1] = "fn" -> fnExecutor(s, executor[2])
      [] executor[1] = "settle" ->
           resolve([s EXCEPT !.executor = "sync"], executor[2])
      [] executor[1] = "reject" ->
           reject([s EXCEPT !.executor = "sync"], executor[2])
      [] executor[1] = "throw" ->
           reject([s EXCEPT !.executor = "threw"], executor[2])

\* Faulty variant: the constructor goes on after reject(reason) instead of returning.
constructor_NoReturn(self, executor, options, abortSignal) ==
    callExecutor(
        timeoutRegion(rejectOnAbortRegion(
            abortSignalRegion(NewTask(self, options), abortSignal))),
        executor)

\* The executor handed to super(): the whole constructor body. After
\* `return reject(reason)` a work function that was given is "skipped".
constructor(self, executor, options, abortSignal) ==
    LET bridged == abortSignalRegion(NewTask(self, options), abortSignal)
    IN  IF abortSignal.present /\ abortSignal.aborted /\ options.rejectOnAbort
        THEN [bridged EXCEPT
                 !.executor = IF executor[1] = "absent" THEN "absent" ELSE "skipped"]
        ELSE callExecutor(timeoutRegion(rejectOnAbortRegion(bridged)), executor)

\* Faulty variant: nothing is rebound: the derived task keeps its own operations.
reassignProps_None(childPromise, parentPromise) == childPromise

\* Faulty variant: only reject is rebound.
reassignProps_RejectOnly(childPromise, parentPromise) ==
    [childPromise EXCEPT !.reject = parentPromise.reject]

\* reassignProps(childPromise, parentPromise)
reassignProps(childPromise, parentPromise) ==
    [childPromise EXCEPT !.reject = parentPromise.reject,
                         !.abort = parentPromise.abort]

\* What a derived task is settled with once its parent has settled: the
\* handler's result, or the parent's outcome passed through.
\* A handler is "none" (not given), "value" (returns) or "throw".
Handlers == {"none", "value", "throw"}
Kinds == {"then", "catch", "finally"}
\* The derivations tried: then(f) with f returning or throwing, catch(g) with g
\* returning, finally(h) with h returning.
Links == {<<"then", "value">>, <<"then", "throw">>, <<"catch", "value">>,
          <<"finally", "value">>}
handles(kind, state) ==
    \/ kind = "then" /\ state = "fulfilled"
    \/ kind = "catch" /\ state = "rejected"
    \/ kind = "finally"
outcome(d, p) ==
    IF d.handler = "none" \/ ~handles(d.kind, p.state)
    THEN <<p.state, p.value>>
    ELSE IF d.handler = "throw"
         THEN <<"rejected", HandlerError>>
         ELSE IF d.kind = "finally"
              THEN <<p.state, p.value>>
              ELSE <<"fulfilled", HandlerValue>>

\* ------------------------------------------------------------------- state
VARIABLES
    tasks,     \* the tasks, by id
    signal,    \* the external AbortSignal that may be passed as options.abortSignal
    ops        \* how many settle / reject calls have been made

vars == <<tasks, signal, ops>>

Exists(t) == tasks[t].state # "none"
Settled(s) == s.state \in {"fulfilled", "rejected"}
WorkRunning == Exists(Root) /\ tasks[Root].executor \in {"sync", "async"}
UserListeners(s) == {c \in {s.cleanupFns[i] : i \in 1..Len(s.cleanupFns)} : c[1] = "listener" /\ c[2] > 0}

Init ==
    /\ tasks = [t \in Tasks |-> NoTask]
    /\ signal \in {NoSignal, [present |-> TRUE, aborted |-> FALSE, reason |-> Undefined]}
                  \cup {[present |-> TRUE, aborted |-> TRUE, reason |-> SignalReason]}
    /\ ops = 0

\* ----------------------------------------------------------------- actions
\* new AbortablePromise(executor, options).
ConstructWith(executor, options) ==
    /\ ~Exists(Root)
    /\ tasks' = [tasks EXCEPT ![Root] =
                    constructor(Root, executor, options,
                                IF signal.present THEN signal ELSE NoSignal)]
    /\ ops' = IF executor[1] \in {"settle", "reject"} THEN 1 ELSE 0
    /\ UNCHANGED signal

\* ... both drawn from a set.
ConstructFrom(executorSet, optionSet) ==
    \E executor \in executorSet, options \in optionSet : ConstructWith(executor, options)

Construct == ConstructFrom(Executors, Options)

\* ... with no timeout.
ConstructPlain == ConstructFrom(Executors, {o \in Options : o.timeout = 0})

\* ... with no timeout and a work function that does not throw.
ConstructChain ==
    ConstructFrom({e \in Executors : e[1] \in {"idle", "settle", "reject"}},
                  {o \in Options : o.timeout = 0})

\* The work function calls its settle callback.
Settle ==
    /\ WorkRunning /\ ops < MaxOps
    /\ \E v \in Values : tasks' = [tasks EXCEPT ![Root] = resolve(@, v)]
    /\ ops' = ops + 1
    /\ UNCHANGED signal

\* The work function calls its reject callback.
RejectCallback ==
    /\ WorkRunning /\ ops < MaxOps
    /\ \E r \in Reasons : tasks' = [tasks EXCEPT ![Root] = reject(@, r)]
    /\ ops' = ops + 1
    /\ UNCHANGED signal

\* AbortablePromise.resolve(value): this.fn(() => value), with no options.
StaticResolve == \E value \in Values : ConstructWith(<<"fn", value>>, DefaultOptions)

\* The job that resumes the executor of fn after its await.
FnResumes ==
    /\ Exists(Root) /\ tasks[Root].executor = "await"
    /\ tasks' = [tasks EXCEPT ![Root] = fnResumed(@)]
    /\ UNCHANGED <<signal, ops>>

\* The promise the work function returned rejects with r: result.catch(reject).
ResultCatchWith(r) ==
    /\ Exists(Root) /\ tasks[Root].executor = "async"
    /\ tasks' = [tasks EXCEPT ![Root] = reject([@ EXCEPT !.executor = "sync"], r)]
    /\ UNCHANGED <<signal, ops>>

ResultCatch == \E r \in Reasons : ResultCatchWith(r)

\* The work function registers a listener: context.onAborted / onResolved.
OnAbortedUpTo(max) ==
    /\ WorkRunning
    /\ Cardinality(UserListeners(tasks[Root])) < max
    /\ \E act \in ListenerActs :
           tasks' = [tasks EXCEPT ![Root] =
                        onAborted(@, <<Cardinality(UserListeners(@)) + 1, act>>)]
    /\ UNCHANGED <<signal, ops>>

OnAborted == OnAbortedUpTo(MaxListeners)

OnAbortedSource == OnAbortedUpTo(MaxSourceListeners)

\* The work function calls the handle onAborted returned.
Unsubscribe ==
    /\ WorkRunning
    /\ \E l \in {tasks[Root].listeners[i] : i \in 1..Len(tasks[Root].listeners)} :
           /\ l[1] > 0
           /\ tasks' = [tasks EXCEPT ![Root] = cleanupEffect(@, <<"listener", l[1]>>)]
    /\ UNCHANGED <<signal, ops>>

\* t.abort(reason)
InstanceAbort ==
    /\ \E t \in Tasks, reason \in Reasons :
           /\ Exists(t)
           /\ tasks' = [tasks EXCEPT ![tasks[t].abort] = abort(@, reason)]
    /\ UNCHANGED <<signal, ops>>

\* t.cancel(): this.abort(new CancelledError())
cancel ==
    /\ \E t \in Tasks :
           /\ Exists(t)
           /\ tasks' = [tasks EXCEPT ![tasks[t].abort] = abort(@, CancelledError)]
    /\ UNCHANGED <<signal, ops>>

\* t.reject(reason)
InstanceReject ==
    /\ ops < MaxOps
    /\ \E t \in Tasks, reason \in Reasons :
           /\ Exists(t)
           /\ tasks' = [tasks EXCEPT ![tasks[t].reject] = reject(@, reason)]
    /\ ops' = ops + 1
    /\ UNCHANGED signal

\* The timer set by the constructor expires.
TimerFires ==
    /\ \E t \in Tasks :
           /\ Exists(t) /\ tasks[t].timer = "armed"
           /\ tasks' = [tasks EXCEPT ![t] = timeoutCallback(@)]
    /\ UNCHANGED <<signal, ops>>

\* The external signal aborts; the bridge listener, when still attached,
\* calls abort(abortSignal.reason).
SignalAborts ==
    /\ Exists(Root) /\ signal.present /\ ~signal.aborted
    /\ signal' = [signal EXCEPT !.aborted = TRUE, !.reason = SignalReason]
    /\ tasks' = [tasks EXCEPT ![Root] =
                    IF @.bridge THEN bridgeListener(@, signal') ELSE @]
    /\ UNCHANGED ops

\* p.then(...) / p.catch(...) / p.finally(...): the native method builds the
\* derived promise through the constructor, and reassignProps rebinds it.
thenWith(p, d, link) ==
    /\ Exists(p) /\ ~Exists(d)
    /\ \A e \in Tasks : e < d => Exists(e)
    /\ tasks' = [tasks EXCEPT ![d] =
                    reassignProps(
                        [constructor(d, NativeExecutor, DefaultOptions, NoSignal)
                            EXCEPT !.parent = p, !.kind = link[1], !.handler = link[2]],
                        tasks[p])]
    /\ UNCHANGED <<signal, ops>>

then == \E p \in Tasks, d \in Tasks, link \in Links : thenWith(p, d, link)

\* root.then(f), f returning a value: a continuation of the root itself.
thenRoot == \E d \in Tasks : thenWith(Root, d, <<"then", "value">>)

\* The reaction job of a derived promise: once the parent has settled, the
\* derived promise's own (wrapped) resolve or reject is called.
React ==
    /\ \E d \in Tasks :
           /\ Exists(d) /\ d # Root /\ ~tasks[d].reacted
           /\ Settled(tasks[tasks[d].parent])
           /\ LET o == outcome(tasks[d], tasks[tasks[d].parent])
                  s == [tasks[d] EXCEPT !.reacted = TRUE]
              IN  tasks' = [tasks EXCEPT ![d] =
                               IF o[1] = "fulfilled" THEN resolve(s, o[2]) ELSE reject(s, o[2])]
    /\ UNCHANGED <<signal, ops>>

\* A single task: the root, its work function, its timer and the external signal.
Next ==
    \/ Construct
    \/ Settle
    \/ RejectCallback
    \/ ResultCatch
    \/ OnAbortedSource
    \/ Unsubscribe
    \/ InstanceAbort
    \/ cancel
    \/ InstanceReject
    \/ TimerFires
    \/ SignalAborts

Spec == Init /\ [][Next]_vars

\* No external signal is passed.
InitChain ==
    /\ tasks = [t \in Tasks |-> NoTask]
    /\ signal = NoSignal
    /\ ops = 0

\* A single task with neither timeout nor external signal, and more listeners.
NextListeners ==
    \/ ConstructPlain
    \/ Settle
    \/ RejectCallback
    \/ ResultCatch
    \/ OnAborted
    \/ Unsubscribe
    \/ InstanceAbort
    \/ cancel
    \/ InstanceReject

SpecListeners == InitChain /\ [][NextListeners]_vars

\* A chain: the root, with neither timeout nor external signal nor listeners,
\* and the tasks derived from it.
NextChain ==
    \/ ConstructChain
    \/ Settle
    \/ RejectCallback
    \/ InstanceAbort
    \/ cancel
    \/ InstanceReject
    \/ then
    \/ React

SpecChain == InitChain /\ [][NextChain]_vars

\* A task with a listener of its work function, and its continuations.
NextOrder ==
    \/ ConstructChain
    \/ Settle
    \/ RejectCallback
    \/ OnAbortedSource
    \/ InstanceAbort
    \/ InstanceReject
    \/ thenRoot
    \/ React

SpecOrder == InitChain /\ [][NextOrder]_vars

\* A task built by the static resolve, its caller and its continuations.
NextStatic ==
    \/ StaticResolve
    \/ FnResumes
    \/ InstanceAbort
    \/ cancel
    \/ InstanceReject
    \/ then
    \/ React

SpecStatic == InitChain /\ [][NextStatic]_vars


\* ------------------------------------------------------------------ claims
\* The steps that abort from outside the settlement callbacks.
AbortSource == InstanceAbort \/ cancel \/ TimerFires \/ SignalAborts

\* A listener of the work function that settles the task was invoked in this step.
SettlingListenerFired(t) ==
    \E i \in (Len(tasks[t].fired) + 1)..Len(tasks'[t].fired) :
        tasks'[t].fired[i][2] \in {"settle", "reject"}

\* C1: the abort reason is written at most once: once a task is aborted, it
\* stays aborted with the same reason through every later step, whichever
\* abort source or settlement comes next.
C1_AbortReasonWrittenOnce ==
    [][\A t \in Tasks :
          tasks[t].aborted =>
              tasks'[t].aborted /\ tasks'[t].reason = tasks[t].reason]_vars

\* A task aborted with its first reason after the timer has fired and the
\* external signal has aborted with other reasons.
C1_Witness ==
    /\ tasks[Root].aborted
    /\ tasks[Root].timer = "fired"
    /\ abortReason(tasks[Root]) # TimeoutError(tasks[Root].timeout)
    /\ signal.aborted
    /\ abortReason(tasks[Root]) # signal.reason
    /\ ~isResolved(tasks[Root])

C3_AbortDoesNotSettle ==
    /\ [][(AbortSource /\ Exists(Root) /\ ~tasks[Root].rejectOnAbort) =>
             /\ (tasks'[Root].state = tasks[Root].state /\ tasks'[Root].value = tasks[Root].value)
                    \/ SettlingListenerFired(Root)
             /\ isAborted(tasks'[Root])
             /\ isAborted(tasks[Root]) \/ ~isResolved(tasks'[Root])]_vars
    /\ [][(Settle /\ ~tasks[Root].rejectOnAbort /\ tasks[Root].state = "pending") =>
             /\ tasks'[Root].state = "fulfilled"
             /\ tasks'[Root].value \in Values]_vars

\* A task without rejectOnAbort that was aborted by cancel() and fulfilled later.
C3_Witness ==
    /\ ~tasks[Root].rejectOnAbort
    /\ isAborted(tasks[Root])
    /\ abortReason(tasks[Root]) = CancelledError
    /\ tasks[Root].state = "fulfilled"
    /\ tasks[Root].value \in Values

\* The calls of the instance operations abort, cancel and reject.
InstanceCall == InstanceAbort \/ cancel \/ InstanceReject

\* C4: on every task derived from the root by then / catch / finally, to any
\* depth, abort and reject are the root's operations; a call of abort, cancel
\* or reject on any task changes the root alone and leaves every derived
\* task's own abort reason, settlement and cleanup log as they were.
C4_DerivedOperationsAreRoots ==
    /\ [](\A t \in Tasks :
             Exists(t) => tasks[t].abort = Root /\ tasks[t].reject = Root)
    /\ [][InstanceCall => \A d \in Tasks \ {Root} : tasks'[d] = tasks[d]]_vars

\* A task derived from a derived task is still pending and unaborted, with
\* nothing cleaned up, while the root has been aborted by cancel().
C4_Witness ==
    /\ Exists(2) /\ tasks[2].parent = 1
    /\ isAborted(tasks[Root]) /\ abortReason(tasks[Root]) = CancelledError
    /\ tasks[Root].state = "rejected"
    /\ ~isAborted(tasks[2]) /\ tasks[2].state = "pending" /\ tasks[2].ran = <<>>

C6_SettlementSingleAssignment ==
    [][\A t \in Tasks :
          Settled(tasks[t]) =>
              /\ tasks'[t].state = tasks[t].state
              /\ tasks'[t].value = tasks[t].value]_vars

\* A task fulfilled by the settle callback on which a second settle or reject
\* call has been made since.
C6_Witness ==
    /\ tasks[Root].state = "fulfilled"
    /\ isResolved(tasks[Root])
    /\ ops >= 2

\* C7: a settled task is aborted.
C7_SettledImpliesAborted ==
    \A t \in Tasks : (Exists(t) /\ Settled(tasks[t])) => isAborted(tasks[t])

\* A task rejected by a synchronous throw of its work function.
C7_Witness ==
    /\ tasks[Root].executor = "threw"
    /\ tasks[Root].state = "rejected"
    /\ isAborted(tasks[Root])

\* The abort channel of task s tells how s ended.
Tells(s) ==
    /\ s.state = "fulfilled" => (isResolved(s) /\ resolved(s) = s.value)
    /\ s.state = "rejected" =>
           abortReason(s) = (IF s.value = Undefined THEN AbortError ELSE s.value)

\* The calls of the wrapped settle and reject callbacks.
SettleCall == Settle \/ RejectCallback \/ InstanceReject \/ ResultCatch

Executions(s, c) == Cardinality({i \in 1..Len(s.ran) : s.ran[i] = c})

\* C9 (as claimed): each cleanup function registered by the constructor (timer
\* cancellation, bridge removal, detachment of the reject-on-abort listener)
\* is executed at most once, and exactly once as soon as a settle or reject
\* call has been made, however many such calls follow.
C9_CleanupExactlyOnce ==
    \A i \in 1..Len(tasks[Root].cleanupFns) :
        LET c == tasks[Root].cleanupFns[i]
        IN  c[2] = 0 =>
                /\ Executions(tasks[Root], c) <= 1
                /\ ops > 0 => Executions(tasks[Root], c) = 1

\* C10: when the timer of a pending, unaborted task fires, the task is
\* aborted with a TimeoutError carrying the configured timeout; with
\* rejectOnAbort it is rejected with that TimeoutError, and without it the
\* task stays pending unless a listener of the work function settles it.
C10_TimeoutAborts ==
    [][(TimerFires /\ Exists(Root) /\ tasks[Root].timer = "armed"
           /\ tasks[Root].state = "pending" /\ ~isAborted(tasks[Root])) =>
          /\ tasks[Root].timeout > 0
          /\ isAborted(tasks'[Root])
          /\ abortReason(tasks'[Root]) = TimeoutError(tasks[Root].timeout)
          /\ tasks[Root].rejectOnAbort =>
                 (/\ tasks'[Root].state = "rejected"
                  /\ tasks'[Root].value = TimeoutError(tasks[Root].timeout))
          /\ ~tasks[Root].rejectOnAbort =>
                 (tasks'[Root].state = "pending" \/ SettlingListenerFired(Root))]_vars

\* A task without rejectOnAbort that its timer has aborted and left pending.
C10_Witness ==
    /\ ~tasks[Root].rejectOnAbort
    /\ tasks[Root].timer = "fired"
    /\ abortReason(tasks[Root]) = TimeoutError(MaxTimeout)
    /\ tasks[Root].state = "pending"

\* The external signal was already aborted when the root was constructed: it
\* is aborted and the constructor attached no bridge listener to it.
PreAborted ==
    /\ Exists(Root) /\ signal.present /\ signal.aborted
    /\ \A i \in 1..Len(tasks[Root].cleanupFns) : tasks[Root].cleanupFns[i][1] # "bridge"

\* The work function has been called by the constructor.
Invoked(s) == s.executor \in {"sync", "async", "threw"}

\* C11 (as claimed): a rejectOnAbort task constructed with an already aborted
\* signal is rejected with the signal's reason, and a work function that was
\* given has been invoked, with isAborted() true.
C11_PreAbortedRejectsAndRuns ==
    (PreAborted /\ tasks[Root].rejectOnAbort) =>
        /\ tasks[Root].state = "rejected" /\ tasks[Root].value = signal.reason
        /\ isAborted(tasks[Root])
        /\ tasks[Root].executor # "absent" => Invoked(tasks[Root])

\* C11 (amended): a rejectOnAbort task constructed with an already aborted
\* signal is rejected with the signal's reason and aborted with it, and the
\* constructor returns there: the work function is never invoked, no listener
\* is registered and no timer is started.
C11_PreAbortedRejectsAndReturns ==
    (PreAborted /\ tasks[Root].rejectOnAbort) =>
        /\ tasks[Root].state = "rejected" /\ tasks[Root].value = signal.reason
        /\ isAborted(tasks[Root]) /\ abortReason(tasks[Root]) = signal.reason
        /\ ~Invoked(tasks[Root])
        /\ tasks[Root].listeners = <<>> /\ tasks[Root].cleanupFns = <<>>
        /\ tasks[Root].timer = "none"

\* A task whose work function was skipped: rejected with the reason of the
\* signal that was aborted before construction.
C11_Witness ==
    /\ PreAborted /\ tasks[Root].rejectOnAbort
    /\ tasks[Root].executor = "skipped"
    /\ tasks[Root].timeout > 0
    /\ tasks[Root].state = "rejected" /\ tasks[Root].value = SignalReason

\* The work function faults with reason r in this step: it throws while the
\* constructor calls it, or the promise it returned rejects.
Faults(r) ==
    \/ /\ \E options \in Options : ConstructWith(<<"throw", r>>, options)
       /\ tasks'[Root].executor = "threw"
    \/ ResultCatchWith(r)

\* The cleanup functions of s have been executed in the step that led to s2:
\* once, in registration order, or twice when a listener of the work function
\* called settle/reject during the abort broadcast.
CleanupRun(s, s2) ==
    \/ s2.ran = s.ran \o s2.cleanupFns
    \/ s2.ran = s.ran \o s2.cleanupFns \o s2.cleanupFns

\* What the controller stores for abort(r).
StoredReason(r) == IF r = Undefined THEN AbortError ELSE r

\* C12 (as claimed): every fault of the work function with a reason e leaves
\* the task rejected with e, its cleanup run and its abort reason set to e.
C12_FaultAlwaysRejects ==
    [][\A r \in Errors :
          Faults(r) =>
              /\ tasks'[Root].state = "rejected" /\ tasks'[Root].value = r
              /\ abortReason(tasks'[Root]) = r
              /\ CleanupRun(tasks[Root], tasks'[Root])]_vars

\* C12 (amended): a fault of the work function with reason e always calls
\* reject(e), which runs the cleanup; it rejects a pending task with e, and
\* sets the abort reason to e (AbortError for undefined) when the task was not
\* aborted; an earlier abort reason and an earlier settlement stay.
C12_FaultRejectsPending ==
    [][\A r \in Reasons :
          Faults(r) =>
              LET s == tasks[Root]
                  s2 == tasks'[Root]
                  wasAborted == IF Exists(Root) THEN isAborted(s)
                                ELSE signal.present /\ signal.aborted
                  wasSettled == Exists(Root) /\ Settled(s)
              IN  /\ CleanupRun(s, s2)
                  /\ isAborted(s2) /\ Settled(s2)
                  /\ ~wasSettled => (s2.state = "rejected" /\ s2.value = r)
                  /\ wasSettled => (s2.state = s.state /\ s2.value = s.value)
                  /\ ~wasAborted => (abortReason(s2) = StoredReason(r))
                  /\ (Exists(Root) /\ wasAborted) => (abortReason(s2) = abortReason(s))
                  /\ (~Exists(Root) /\ wasAborted) => (abortReason(s2) = signal.reason)]_vars

\* The work function threw while the timeout timer was armed: the task is
\* rejected with what was thrown, aborted with it, and the timer is cleared.
C12_Witness ==
    /\ Exists(Root) /\ tasks[Root].executor = "threw"
    /\ tasks[Root].state = "rejected" /\ tasks[Root].value \in Errors
    /\ abortReason(tasks[Root]) = tasks[Root].value
    /\ tasks[Root].timer = "cleared"

\* The listener the last onAborted call of s registered.
LastRegistered(s) == s.listeners[Len(s.listeners)]

\* C13 (as claimed): a listener the work function registers with onAborted on
\* a task that is already aborted is invoked in that call, with the abort
\* reason.
C13_LateListenerInvoked ==
    [][(OnAbortedSource /\ isAborted(tasks[Root])
            /\ LastRegistered(tasks'[Root])[2] # "onResolved") =>
          LET l == LastRegistered(tasks'[Root])
              fired == tasks'[Root].fired
          IN  /\ Len(fired) = Len(tasks[Root].fired) + 1
              /\ fired[Len(fired)][1] = l[1] /\ fired[Len(fired)][2] = l[2]
              /\ fired[Len(fired)][3] = abortReason(tasks[Root])]_vars

\* The invocations of listener l logged by s.
Invocations(s, l) == {i \in 1..Len(s.fired) : s.fired[i][1] = l[1] /\ s.fired[i][2] = l[2]}

\* This step is the first abort of the root.
FirstAbort == Exists(Root) /\ ~isAborted(tasks[Root]) /\ isAborted(tasks'[Root])

\* C14 (as claimed): an onResolved listener that is registered when the first
\* abort happens is invoked in that step if and only if that abort is the one
\* made by the fulfilment, then once and with the fulfilled value; and no
\* onResolved listener is ever invoked on a task first aborted otherwise.
C14_OnResolvedIffFulfilment ==
    /\ [][FirstAbort =>
            \A k \in 1..Len(tasks[Root].listeners) :
                LET l == tasks[Root].listeners[k]
                    before == Invocations(tasks[Root], l)
                    after == Invocations(tasks'[Root], l)
                IN  l[2] = "onResolved" =>
                        IF isResolved(tasks'[Root])
                        THEN /\ Cardinality(after) = Cardinality(before) + 1
                             /\ \A i \in after \ before :
                                    tasks'[Root].fired[i][3] =
                                        withResolved(tasks'[Root].value)
                        ELSE after = before]_vars
    /\ [](\A i \in 1..Len(tasks[Root].fired) :
             tasks[Root].fired[i][2] = "onResolved" => isResolved(tasks[Root]))

\* The constructor attached the bridge listener to the external signal.
BridgeRegistered(s) == \E i \in 1..Len(s.cleanupFns) : s.cleanupFns[i][1] = "bridge"

\* C15: the bridge goes one way. While the task has not run its cleanup, an
\* abort of the external signal aborts the task with the signal's reason, or
\* leaves the reason of an earlier abort; and the external signal changes only
\* by its own abort, never by an operation on the task.
C15_BridgeOneDirectional ==
    /\ [][(SignalAborts /\ BridgeRegistered(tasks[Root]) /\ tasks[Root].ran = <<>>) =>
            /\ isAborted(tasks'[Root])
            /\ abortReason(tasks'[Root]) =
                   (IF isAborted(tasks[Root]) THEN abortReason(tasks[Root])
                    ELSE signal'.reason)]_vars
    /\ [][(signal' # signal) => SignalAborts]_vars

\* The external signal aborted after construction and its reason is the
\* task's abort reason, the task's cleanup not having run.
C15_Witness ==
    /\ Exists(Root) /\ BridgeRegistered(tasks[Root]) /\ tasks[Root].ran = <<>>
    /\ signal.aborted /\ signal.reason = SignalReason
    /\ isAborted(tasks[Root]) /\ abortReason(tasks[Root]) = signal.reason

\* A continuation registered on the root has observed its settlement.
Observed == \E d \in Tasks \ {Root} : Exists(d) /\ tasks[d].parent = Root /\ tasks[d].reacted

\* C16 (as claimed): a task built by the static resolve(value) fulfils with
\* value, and it is not aborted before a continuation has observed the
\* fulfilment.
C16_NotAbortedBeforeObserved ==
    (Exists(Root) /\ tasks[Root].state = "fulfilled") =>
        /\ tasks[Root].value = tasks[Root].awaited
        /\ isAborted(tasks[Root]) => Observed

\* C16 (amended): a task built by the static resolve(value) is pending and
\* not aborted when resolve returns; the job that resumes its executor
\* fulfils it with value if it is still pending and, in the same step and
\* before any continuation reacts, aborts it with the resolved tag of value;
\* it is never aborted while pending and never fulfilled with another value.
C16_AbortedWithFulfilment ==
    /\ [][StaticResolve =>
            (tasks'[Root].state = "pending" /\ ~isAborted(tasks'[Root]))]_vars
    /\ [][(FnResumes /\ tasks[Root].state = "pending") =>
            /\ tasks'[Root].state = "fulfilled"
            /\ tasks'[Root].value = tasks[Root].awaited
            /\ isAborted(tasks'[Root]) /\ isResolved(tasks'[Root])
            /\ resolved(tasks'[Root]) = tasks[Root].awaited
            /\ \A d \in Tasks \ {Root} : tasks'[d] = tasks[d]]_vars
    /\ [](Exists(Root) =>
            /\ isAborted(tasks[Root]) <=> Settled(tasks[Root])
            /\ tasks[Root].state = "fulfilled" =>
                   tasks[Root].value = tasks[Root].awaited)

\* The static resolve's task is fulfilled and aborted with the resolved tag
\* while its continuation has not reacted yet.
C16_Witness ==
    /\ Exists(Root) /\ tasks[Root].executor = "done"
    /\ tasks[Root].state = "fulfilled" /\ tasks[Root].value = tasks[Root].awaited
    /\ isAborted(tasks[Root]) /\ isResolved(tasks[Root])
    /\ \E d \in Tasks \ {Root} : Exists(d) /\ tasks[d].parent = Root
    /\ ~Observed

\* C17 (as claimed): once a task has settled, by whatever path, its cleanup
\* has run: the timeout timer is no longer armed, so that it never fires
\* afterwards, and the bridge listener is no longer on the external signal.
C17_SettledImpliesCleanedUp ==
    (Exists(Root) /\ Settled(tasks[Root])) =>
        /\ tasks[Root].timer # "armed"
        /\ ~tasks[Root].bridge

\* The listeners of a sequence that were registered through onAborted itself,
\* and the logged invocations of such listeners: <<id, act>> each.
OnAbortedListeners(listeners) ==
    LET own == SelectSeq(listeners, LAMBDA l : l[2] # "onResolved")
    IN  [i \in 1..Len(own) |-> <<own[i][1], own[i][2]>>]

\* C18 (as claimed): at the first abort, the onAborted listeners registered
\* at that moment are invoked once each, in registration order (the rej
\* listener first), all with the abort reason, also when one of them calls
\* settle or reject during the broadcast.
C18_BroadcastReachesEveryListener ==
    [][FirstAbort =>
          LET s == tasks[Root]
              s2 == tasks'[Root]
              new == SubSeq(s2.fired, Len(s.fired) + 1, Len(s2.fired))
          IN  /\ OnAbortedListeners(new) = OnAbortedListeners(s.listeners)
              /\ \A i \in 1..Len(new) : new[i][3] = abortReason(s2)]_vars

\* C19: a settle or reject call that settles a task does, in this order and
\* in one step: the settlement; the abort broadcast, so that every listener
\* invoked finds the task settled and no cleanup of this call executed, the
\* first registered listener being reached when the task was not aborted; then
\* the cleanup functions in registration order. No continuation has reacted
\* to the settlement when the step ends.
C19_SettleAbortCleanupOrder ==
    [][\A t \in Tasks :
          (Exists(t) /\ tasks[t].state = "pending" /\ tasks'[t].state # "pending"
               /\ (SettleCall \/ React)) =>
              LET s == tasks[t]
                  s2 == tasks'[t]
                  new == SubSeq(s2.fired, Len(s.fired) + 1, Len(s2.fired))
              IN  /\ isAborted(s2)
                  /\ \A i \in 1..Len(new) :
                         /\ new[i][4] = s2.state
                         /\ new[i][5] = Len(s.ran)
                         /\ new[i][3] = abortReason(s2)
                  /\ (~isAborted(s) /\ s.listeners # <<>>
                          /\ (s.listeners[1][2] = "onResolved" => isResolved(s2))) =>
                         /\ Len(new) >= 1
                         /\ new[1][1] = s.listeners[1][1]
                         /\ new[1][2] = s.listeners[1][2]
                  /\ isAborted(s) => new = <<>>
                  /\ CleanupRun(s, s2)
                  /\ s2.listeners = <<>>
                  /\ \A d \in Tasks \ {t} : tasks'[d] = tasks[d]
                  /\ \A d \in Tasks \ {t} :
                         (Exists(d) /\ tasks[d].parent = t) => ~tasks'[d].reacted]_vars

\* A settle call has fulfilled a task whose two listeners were both reached
\* by the broadcast before the cleanup removed them, and a continuation of
\* the task is still waiting.
C19_Witness ==
    /\ Exists(Root) /\ tasks[Root].state = "fulfilled"
    /\ Len(tasks[Root].fired) >= 2
    /\ \A i \in 1..Len(tasks[Root].fired) :
           tasks[Root].fired[i][4] = "fulfilled" /\ tasks[Root].fired[i][5] = 0
    /\ tasks[Root].ran = tasks[Root].cleanupFns
    /\ \E d \in Tasks \ {Root} :
           Exists(d) /\ tasks[d].parent = Root /\ ~tasks[d].reacted

\* C20: constructing a task with rejectOnAbort false and a signal already
\* aborted with reason r is not an error: the task is aborted with r and not
\* rejected by it, no rej listener is installed, the timeout timer is started,
\* and a work function that was given is invoked, with isAborted() true and
\* abortReason() = r; the task then leaves the pending state only by a call
\* of the settle or reject callbacks or of reject().
C20_PreAbortedWithoutReject ==
    /\ [][\A executor \in Executors, options \in Options :
            (ConstructWith(executor, options)
                 /\ signal.present /\ signal.aborted /\ ~options.rejectOnAbort) =>
                LET s2 == tasks'[Root]
                IN  /\ isAborted(s2) /\ abortReason(s2) = signal.reason
                    /\ s2.listeners = <<>> /\ s2.fired = <<>>
                    /\ options.timeout > 0 =>
                           /\ s2.cleanupFns = <<<<"timer", 0>>>>
                           /\ s2.timer = (IF s2.ran = <<>> THEN "armed" ELSE "cleared")
                    /\ executor[1] # "absent" => Invoked(s2)
                    /\ executor[1] \in {"absent", "idle", "async"} =>
                           (s2.state = "pending" /\ s2.ran = <<>>)
                    /\ executor[1] = "settle" =>
                           (s2.state = "fulfilled" /\ s2.value = executor[2])
                    /\ executor[1] \in {"reject", "throw"} =>
                           (s2.state = "rejected" /\ s2.value = executor[2])]_vars
    /\ [][(PreAborted /\ ~tasks[Root].rejectOnAbort
               /\ tasks[Root].state = "pending" /\ tasks'[Root].state # "pending") =>
            SettleCall]_vars
    /\ [](PreAborted =>
            (isAborted(tasks[Root]) /\ abortReason(tasks[Root]) = signal.reason))

\* Such a task: aborted with the signal's reason, still pending with its timer
\* armed and its work function running.
C20_Witness ==
    /\ PreAborted /\ ~tasks[Root].rejectOnAbort
    /\ tasks[Root].state = "pending" /\ tasks[Root].executor = "sync"
    /\ isAborted(tasks[Root]) /\ abortReason(tasks[Root]) = SignalReason
    /\ tasks[Root].timer = "armed"

=============================================================================
